---- MODULE Spec2Model ----
(***************************************************************************)
(* Model of the child-process supervisor of jre_launcher.cpp:              *)
(*   signal_handler, stopJvm and launchJvm, together with the child        *)
(*   process and the pipe that carries its output.                         *)
(*                                                                         *)
(* launchJvm runs on one thread; its program counter pc is named after the *)
(* source line it is about to execute.  stopJvm runs on another thread     *)
(* (the JNI entry point nativeStopJvm) and has its own program counter     *)
(* spc.  The signal handler interrupts launchJvm between two of its steps  *)
(* and runs to completion.  The child process is the environment: it       *)
(* writes to the pipe, closes its output, exits or is killed at any time.  *)
(***************************************************************************)
EXTENDS Integers, Sequences, FiniteSets

\* ---- bounds of the model ----
\* number of bytes the child may write in one launch
MaxBytes == 2
\* capacity of the read buffer, in bytes (char buffer[1024], scaled)
BufSize == 1

\* ---- program constants ----
SIGINT == 2
SIGKILL == 9
SIGTERM == 15
\* int wait_timeout = 5000;
WaitTimeout == 5000
\* usleep(100000); waited += 100;
SleepMs == 100
\* the process identifier fork() hands to the parent
Pid == 1
\* exit codes the child may terminate with (0, and EXIT_FAILURE of a failed exec)
ExitCodes == {0, 1}

VARIABLES
    \* static globals of jre_launcher.cpp
    child_pid, signal_received,
    \* whether setup_signal_handlers has installed signal_handler
    handlers,
    \* launchJvm: program counter and locals
    pc, pipefd0, pipefd1, ret, err, revents, buffer, waited, status, retval,
    \* the child process (of the latest fork) and the pipe
    childState, childStatus, childOut, pend, nw, pipe,
    \* the caller's output stream (STDOUT_FILENO of the supervisor)
    out,
    \* stopJvm: program counter, the pid it passed to kill, its last result
    spc, stopTarget, stopRet,
    \* history of the current launch: the flag was set after the reset; stopJvm
    \* was called before any output; how the loop ended and whether the child
    \* was still running then; which branch of line 179 was taken; the timeout
    \* of line 198 was reported; an I/O call failed
    cancelled, stopEarly, loopExit, aliveAtExit, shutdown, timeoutReported, ioFault,
    \* observations of the current launch: a signal arrived after the handler
    \* was installed and the loop has not checked the flag yet; kill(pid, SIGKILL)
    \* of line 181 was called; the flag was already set when the current
    \* iteration's poll began
    sigBeforeLoop, killSent, flagAtWait

glob == <<child_pid, signal_received, handlers>>
loc == <<pc, pipefd0, pipefd1, ret, err, revents, buffer, waited, status, retval>>
chi == <<childState, childStatus, childOut, pend, nw, pipe>>
stp == <<spc, stopTarget, stopRet>>
his == <<cancelled, stopEarly, loopExit, aliveAtExit, shutdown, timeoutReported, ioFault>>
obs == <<sigBeforeLoop, killSent, flagAtWait>>
vars == <<glob, loc, chi, out, stp, his, obs>>

NoStatus == <<"none", 0>>

\* the child exists as a process (running or zombie) and has not been reaped
ChildAlive == childState \in {"running", "zombie"}

\* launchJvm is between its initial reset (line 74) and its return
InLaunch == pc \notin {"idle", "l69", "l74", "done"}

\* launchJvm is running and has not created its child yet
BeforeFork == pc \in {"l69", "l74", "l75", "l78", "l86", "l90", "l91"}

\* launchJvm has installed the handler (line 69) and has not reached the
\* supervision loop (line 119) yet
BeforeLoop == pc \in {"l74", "l75", "l78", "l86", "l110", "l111"}

\* W* macros of <sys/wait.h> on the status of a reaped child
WIFSIGNALED(st) == st[1] = "sig"
WEXITSTATUS(st) == st[2]
WTERMSIG(st) == st[2]

Min(a, b) == IF a < b THEN a ELSE b

Init ==
    /\ child_pid = -1
    /\ signal_received = 0
    /\ handlers = FALSE
    /\ pc = "idle"
    /\ pipefd0 = "none"
    /\ pipefd1 = "none"
    /\ ret = 0
    /\ err = "none"
    /\ revents = {}
    /\ buffer = <<>>
    /\ waited = 0
    /\ status = NoStatus
    /\ retval = 0
    /\ childState = "none"
    /\ childStatus = NoStatus
    /\ childOut = FALSE
    /\ pend = {}
    /\ nw = 0
    /\ pipe = <<>>
    /\ out = <<>>
    /\ spc = "idle"
    /\ stopTarget = 0
    /\ stopRet = "none"
    /\ cancelled = FALSE
    /\ stopEarly = FALSE
    /\ loopExit = "none"
    /\ aliveAtExit = FALSE
    /\ shutdown = "none"
    /\ timeoutReported = FALSE
    /\ ioFault = FALSE
    /\ sigBeforeLoop = FALSE
    /\ killSent = FALSE
    /\ flagAtWait = FALSE

\* ---- kill(2) ----
\* kill reaches the child when it names the child's pid, or when it is the
\* broadcast kill(-1, sig), while the child is still a process (not reaped)
KillDelivers(target) == ChildAlive /\ target \in {Pid, -1}

\* the values kill(target, sig) may return: 0, or -1 (ESRCH) when nothing was
\* signalled; a broadcast may also reach other processes of the caller
KillResults(target) ==
    IF KillDelivers(target) THEN {0}
    ELSE IF target = -1 THEN {0, -1}
    ELSE {-1}

\* the signals pending for the child after kill(target, sig)
PendAfter(target, sig) ==
    IF KillDelivers(target) /\ childState = "running" THEN pend \cup {sig} ELSE pend

\* kill(target, sig) names the pid of a child that has already been reaped
KillsReaped(target) == target = Pid /\ childState = "reaped"

\* ---- signal_handler (lines 22-27) ----
\* a handler that records only that a signal arrived (signal_received = 1)
HandlerFlagOne(sig) == 1

\* the value the handler stores in signal_received
HandlerFlag(sig) == sig

signal_handler(sig) ==
    /\ handlers
    /\ signal_received' = HandlerFlag(sig)
    /\ pend' = IF child_pid > 0 THEN PendAfter(child_pid, SIGTERM) ELSE pend
    /\ cancelled' = (cancelled \/ InLaunch)
    /\ UNCHANGED <<child_pid, handlers, loc, out, stp>>
    /\ UNCHANGED <<childState, childStatus, childOut, nw, pipe>>
    /\ UNCHANGED <<stopEarly, loopExit, aliveAtExit, shutdown, timeoutReported, ioFault>>
    /\ sigBeforeLoop' = (sigBeforeLoop \/ BeforeLoop)
    /\ UNCHANGED <<killSent, flagAtWait>>

\* ---- stopJvm (lines 51-66) ----
\* the caller (nativeStopJvm, line 310) invokes stopJvm
StopCall ==
    /\ spc = "idle"
    /\ spc' = "s52"
    /\ stopRet' = "none"
    /\ stopTarget' = 0
    /\ stopEarly' = (stopEarly \/ BeforeFork \/ (InLaunch /\ nw = 0))
    /\ UNCHANGED <<glob, loc, chi, out>>
    /\ UNCHANGED <<cancelled, loopExit, aliveAtExit, shutdown, timeoutReported, ioFault>>
    /\ UNCHANGED obs

\* line 52: if (child_pid > 0) ... else return -1
Stop52 ==
    /\ spc = "s52"
    /\ IF child_pid > 0
       THEN spc' = "s55" /\ stopRet' = stopRet
       ELSE spc' = "idle" /\ stopRet' = "fail"
    /\ UNCHANGED <<glob, loc, chi, out, his, stopTarget>>
    /\ UNCHANGED obs

\* line 55: kill(child_pid, SIGTERM) == 0, child_pid read again
Stop55 ==
    /\ spc = "s55"
    /\ stopTarget' = child_pid
    /\ pend' = PendAfter(child_pid, SIGTERM)
    /\ \E r \in KillResults(child_pid) :
          IF r = 0
          THEN spc' = "s56" /\ stopRet' = "none"
          ELSE spc' = "idle" /\ stopRet' = "fail"
    /\ UNCHANGED <<glob, loc, out, his>>
    /\ UNCHANGED <<childState, childStatus, childOut, nw, pipe>>
    /\ UNCHANGED obs

\* the value stopJvm stores in signal_received after a delivered kill
StopFlag == SIGTERM

\* lines 56-57: signal_received = SIGTERM; return 0
Stop56 ==
    /\ spc = "s56"
    /\ signal_received' = StopFlag
    /\ cancelled' = (cancelled \/ InLaunch)
    /\ spc' = "idle"
    /\ stopRet' = "ok"
    /\ UNCHANGED <<child_pid, handlers, loc, chi, out, stopTarget>>
    /\ UNCHANGED <<stopEarly, loopExit, aliveAtExit, shutdown, timeoutReported, ioFault>>
    /\ UNCHANGED obs

\* ---- the child process ----
\* the child writes one byte to its stdout/stderr; bytes are numbered 1, 2, ...
\* (a write to a pipe whose read end is closed fails and writes nothing)
ChildWrite ==
    /\ childState = "running"
    /\ childOut
    /\ pipefd0 = "open"
    /\ nw < MaxBytes
    /\ nw' = nw + 1
    /\ pipe' = Append(pipe, nw + 1)
    /\ UNCHANGED <<glob, loc, out, stp, his>>
    /\ UNCHANGED <<childState, childStatus, childOut, pend>>
    /\ UNCHANGED obs

\* the child closes its stdout and stderr and keeps running
ChildCloseOutput ==
    /\ childState = "running"
    /\ childOut
    /\ childOut' = FALSE
    /\ UNCHANGED <<glob, loc, out, stp, his>>
    /\ UNCHANGED <<childState, childStatus, pend, nw, pipe>>
    /\ UNCHANGED obs

\* the child terminates normally (exit, or a failed execvp: line 108)
ChildExit(c) ==
    /\ childState = "running"
    /\ childState' = "zombie"
    /\ childStatus' = <<"exit", c>>
    /\ childOut' = FALSE
    /\ pend' = {}
    /\ UNCHANGED <<glob, loc, out, stp, his>>
    /\ UNCHANGED <<nw, pipe>>
    /\ UNCHANGED obs

\* the child is terminated by a signal that was sent to it
ChildKilled(s) ==
    /\ childState = "running"
    /\ s \in pend
    /\ childState' = "zombie"
    /\ childStatus' = <<"sig", s>>
    /\ childOut' = FALSE
    /\ pend' = {}
    /\ UNCHANGED <<glob, loc, out, stp, his>>
    /\ UNCHANGED <<nw, pipe>>
    /\ UNCHANGED obs

\* ---- launchJvm (lines 68-220) ----
\* a close that leaves the descriptor open
CloseKeep(fd) == fd

\* close(fd) on a pipe end of launchJvm: an open end becomes closed; closing
\* an end that is not open (closed already, or never opened) is an error
Close(fd) == IF fd = "open" THEN "closed" ELSE "EBADF"

\* return v: the result reaches the caller and the locals go out of scope
Return(v) ==
    /\ retval' = v
    /\ pc' = "done"
    /\ ret' = 0 /\ err' = "none" /\ revents' = {} /\ buffer' = <<>>
    /\ waited' = 0 /\ status' = NoStatus

\* the caller (nativeLaunchJvm, line 303) invokes launchJvm
LaunchCall ==
    /\ pc \in {"idle", "done"}
    /\ pc' = "l69"
    /\ pipefd0' = "none" /\ pipefd1' = "none"
    /\ ret' = 0 /\ err' = "none" /\ revents' = {} /\ buffer' = <<>>
    /\ waited' = 0 /\ status' = NoStatus /\ retval' = 0
    /\ out' = <<>>
    /\ cancelled' = FALSE /\ stopEarly' = FALSE /\ loopExit' = "none" /\ aliveAtExit' = FALSE
    /\ shutdown' = "none"
    /\ timeoutReported' = FALSE /\ ioFault' = FALSE
    /\ sigBeforeLoop' = FALSE /\ killSent' = FALSE /\ flagAtWait' = FALSE
    /\ UNCHANGED <<glob, chi, stp>>

\* lines 69-72: setup_signal_handlers() installs signal_handler, or fails
L69 ==
    /\ pc = "l69"
    /\ \E ok \in BOOLEAN :
          IF ok
          THEN /\ handlers' = TRUE
               /\ pc' = "l74"
               /\ UNCHANGED <<ret, err, revents, buffer, waited, status, retval>>
          ELSE /\ handlers' = handlers
               /\ Return(-1)
    /\ UNCHANGED <<child_pid, signal_received, chi, out, stp, his>>
    /\ UNCHANGED <<pipefd0, pipefd1>>
    /\ UNCHANGED obs

\* line 74: signal_received = 0
L74 ==
    /\ pc = "l74"
    /\ signal_received' = 0
    /\ pc' = "l75"
    /\ UNCHANGED <<child_pid, handlers, chi, out, stp, his>>
    /\ UNCHANGED <<pipefd0, pipefd1, ret, err, revents, buffer, waited, status, retval>>
    /\ UNCHANGED obs

\* line 75: child_pid = -1
L75 ==
    /\ pc = "l75"
    /\ child_pid' = -1
    /\ pc' = "l78"
    /\ UNCHANGED <<signal_received, handlers, chi, out, stp, his>>
    /\ UNCHANGED <<pipefd0, pipefd1, ret, err, revents, buffer, waited, status, retval>>
    /\ UNCHANGED obs

\* lines 78-84: pipe(pipefd), then O_NONBLOCK on the read end; or pipe fails
L78 ==
    /\ pc = "l78"
    /\ \E ok \in BOOLEAN :
          IF ok
          THEN /\ pipefd0' = "open" /\ pipefd1' = "open"
               /\ pc' = "l86"
               /\ UNCHANGED <<ret, err, revents, buffer, waited, status, retval>>
          ELSE /\ pipefd0' = pipefd0 /\ pipefd1' = pipefd1
               /\ Return(-1)
    /\ UNCHANGED <<glob, chi, out, stp, his>>
    /\ UNCHANGED obs

\* line 86: fork(); the child starts with the write end as its stdout/stderr
L86 ==
    /\ pc = "l86"
    /\ \E ok \in BOOLEAN :
          IF ok
          THEN /\ childState' = "running" /\ childStatus' = NoStatus
               /\ childOut' = TRUE /\ pend' = {} /\ nw' = 0 /\ pipe' = <<>>
               /\ pc' = "l110"
          ELSE /\ UNCHANGED chi
               /\ pc' = "l90"
    /\ UNCHANGED <<glob, out, stp, his>>
    /\ UNCHANGED <<pipefd0, pipefd1, ret, err, revents, buffer, waited, status, retval>>
    /\ UNCHANGED obs

\* a failed fork that leaves the read end open
L90Skip ==
    /\ pc = "l90"
    /\ pipefd0' = pipefd0
    /\ pc' = "l91"
    /\ UNCHANGED <<glob, chi, out, stp, his>>
    /\ UNCHANGED <<pipefd1, ret, err, revents, buffer, waited, status, retval>>
    /\ UNCHANGED obs

\* line 90: close(pipefd[0]) after a failed fork
L90 ==
    /\ pc = "l90"
    /\ pipefd0' = Close(pipefd0)
    /\ pc' = "l91"
    /\ UNCHANGED <<glob, chi, out, stp, his>>
    /\ UNCHANGED <<pipefd1, ret, err, revents, buffer, waited, status, retval>>
    /\ UNCHANGED obs

\* lines 91-92: close(pipefd[1]); return -1
L91 ==
    /\ pc = "l91"
    /\ pipefd1' = Close(pipefd1)
    /\ Return(-1)
    /\ UNCHANGED <<glob, chi, out, stp, his>>
    /\ UNCHANGED pipefd0
    /\ UNCHANGED obs

\* line 110: child_pid = pid
L110 ==
    /\ pc = "l110"
    /\ child_pid' = Pid
    /\ pc' = "l111"
    /\ UNCHANGED <<signal_received, handlers, chi, out, stp, his>>
    /\ UNCHANGED <<pipefd0, pipefd1, ret, err, revents, buffer, waited, status, retval>>
    /\ UNCHANGED obs

\* line 111: close(pipefd[1])
L111 ==
    /\ pc = "l111"
    /\ pipefd1' = Close(pipefd1)
    /\ pc' = "l120"
    /\ UNCHANGED <<glob, chi, out, stp, his>>
    /\ UNCHANGED <<pipefd0, ret, err, revents, buffer, waited, status, retval>>
    /\ UNCHANGED obs

\* ---- the supervision loop (lines 119-172) ----
\* a break out of the loop, and an iteration that stays in it
LoopExit(reason) == loopExit' = reason /\ aliveAtExit' = (childState = "running")
LoopStay == UNCHANGED <<loopExit, aliveAtExit>>

\* some process still holds the write end of the pipe
WritersOpen == childOut \/ pipefd1 = "open"

\* what poll(fds, 1, 100) may return, as <<ret, errno, revents>>: data makes
\* the read end readable; with no writer left the hang-up is reported, and at
\* end of file POSIX lets POLLIN accompany it or not; with no data and a
\* writer the wait times out; the call may also fail: interrupted (EINTR),
\* out of resources for now (EAGAIN, which POSIX lists for poll), or otherwise
PollOutcomes ==
    (IF pipe # <<>>
     THEN {<<1, "none", {"IN"} \cup (IF WritersOpen THEN {} ELSE {"HUP"})>>}
     ELSE IF ~WritersOpen
     THEN {<<1, "none", {"HUP"}>>, <<1, "none", {"IN", "HUP"}>>}
     ELSE {<<0, "none", {}>>})
    \cup {<<-1, "EINTR", {}>>, <<-1, "EAGAIN", {}>>, <<-1, "other", {}>>}

\* line 120: int ret = poll(fds, 1, 100)
L120 ==
    /\ pc = "l120"
    /\ \E o \in PollOutcomes :
          /\ ret' = o[1]
          /\ err' = o[2]
          /\ revents' = o[3]
    /\ pc' = "l122"
    /\ UNCHANGED <<glob, chi, out, stp, his>>
    /\ UNCHANGED <<pipefd0, pipefd1, buffer, waited, status, retval>>
    /\ flagAtWait' = (signal_received # 0)
    /\ UNCHANGED <<sigBeforeLoop, killSent>>

\* a check that consumes the flag when it sees it (signal_received = 0; break)
L122Consume ==
    /\ pc = "l122"
    /\ IF signal_received # 0
       THEN pc' = "l174" /\ LoopExit("cancel") /\ signal_received' = 0
       ELSE pc' = "l127" /\ LoopStay /\ signal_received' = signal_received
    /\ UNCHANGED <<child_pid, handlers, chi, out, stp>>
    /\ UNCHANGED <<pipefd0, pipefd1, ret, err, revents, buffer, waited, status, retval>>
    /\ UNCHANGED <<cancelled, stopEarly, shutdown, timeoutReported, ioFault>>
    /\ sigBeforeLoop' = FALSE
    /\ UNCHANGED <<killSent, flagAtWait>>

\* a loop without the check of line 122 (the flag is looked at only after an
\* interrupted poll, line 129)
L122Off ==
    /\ pc = "l122"
    /\ pc' = "l127" /\ LoopStay
    /\ UNCHANGED <<glob, chi, out, stp>>
    /\ UNCHANGED <<pipefd0, pipefd1, ret, err, revents, buffer, waited, status, retval>>
    /\ UNCHANGED <<cancelled, stopEarly, shutdown, timeoutReported, ioFault>>
    /\ sigBeforeLoop' = FALSE
    /\ UNCHANGED <<killSent, flagAtWait>>

\* a check that gives way to a readable pipe (if (signal_received && ret <= 0))
L122Late ==
    /\ pc = "l122"
    /\ IF signal_received # 0 /\ ret <= 0
       THEN pc' = "l174" /\ LoopExit("cancel")
       ELSE pc' = "l127" /\ LoopStay
    /\ UNCHANGED <<glob, chi, out, stp>>
    /\ UNCHANGED <<pipefd0, pipefd1, ret, err, revents, buffer, waited, status, retval>>
    /\ UNCHANGED <<cancelled, stopEarly, shutdown, timeoutReported, ioFault>>
    /\ sigBeforeLoop' = FALSE
    /\ UNCHANGED <<killSent, flagAtWait>>

\* lines 122-125: if (signal_received) break
L122 ==
    /\ pc = "l122"
    /\ IF signal_received # 0
       THEN pc' = "l174" /\ LoopExit("cancel")
       ELSE pc' = "l127" /\ LoopStay
    /\ UNCHANGED <<glob, chi, out, stp>>
    /\ UNCHANGED <<pipefd0, pipefd1, ret, err, revents, buffer, waited, status, retval>>
    /\ UNCHANGED <<cancelled, stopEarly, shutdown, timeoutReported, ioFault>>
    /\ sigBeforeLoop' = FALSE
    /\ UNCHANGED <<killSent, flagAtWait>>

\* lines 127-149: dispatch on the result of poll
L127 ==
    /\ pc = "l127"
    /\ IF ret = -1 /\ err = "EINTR"
       THEN IF signal_received # 0
            THEN pc' = "l174" /\ LoopExit("cancel") /\ ioFault' = ioFault
            ELSE pc' = "l120" /\ LoopStay /\ ioFault' = ioFault
       ELSE IF ret = -1
       THEN pc' = "l174" /\ LoopExit("pollerr") /\ ioFault' = TRUE
       ELSE IF ret = 0
       THEN pc' = "l138" /\ LoopStay /\ ioFault' = ioFault
       ELSE IF "IN" \in revents
       THEN pc' = "l150" /\ LoopStay /\ ioFault' = ioFault
       ELSE pc' = "l168" /\ LoopStay /\ ioFault' = ioFault
    /\ UNCHANGED <<glob, chi, out, stp>>
    /\ UNCHANGED <<pipefd0, pipefd1, ret, err, revents, buffer, waited, status, retval>>
    /\ UNCHANGED <<cancelled, stopEarly, shutdown, timeoutReported>>
    /\ UNCHANGED obs

\* waitpid(pid, &status, WNOHANG): pid for a terminated child, which it reaps,
\* 0 for a running one, -1 (ECHILD) when there is no child to wait for
WaitNoHang == IF childState = "zombie" THEN Pid ELSE IF childState = "running" THEN 0 ELSE -1

\* lines 138-146: non-blocking check after a timed-out wait
L138 ==
    /\ pc = "l138"
    /\ IF WaitNoHang = Pid
       THEN /\ childState' = "reaped"
            /\ status' = childStatus
            /\ pc' = "l174" /\ LoopExit("exited")
       ELSE IF WaitNoHang = -1
       THEN /\ UNCHANGED <<childState, status>>
            /\ pc' = "l174" /\ LoopExit("waiterr")
       ELSE /\ UNCHANGED <<childState, status>>
            /\ pc' = "l120" /\ LoopStay
    /\ UNCHANGED <<glob, out, stp>>
    /\ UNCHANGED <<childStatus, childOut, pend, nw, pipe>>
    /\ UNCHANGED <<pipefd0, pipefd1, ret, err, revents, buffer, waited, retval>>
    /\ UNCHANGED <<cancelled, stopEarly, shutdown, timeoutReported, ioFault>>
    /\ UNCHANGED obs

\* what read(pipefd[0], buffer, sizeof(buffer)) may do on the non-blocking
\* read end: deliver data, report end of file, report EAGAIN, or fail
ReadOutcomes ==
    (IF pipe # <<>> THEN {"data"}
     ELSE IF WritersOpen THEN {"again"}
     ELSE {"eof"})
    \cup {"error"}

\* the number of bytes one read takes out of the pipe
ReadLen == Min(BufSize, Len(pipe))

\* lines 150-165: read one chunk
L150 ==
    /\ pc = "l150"
    /\ \E r \in ReadOutcomes :
          IF r = "data"
          THEN /\ buffer' = SubSeq(pipe, 1, ReadLen)
               /\ pipe' = SubSeq(pipe, ReadLen + 1, Len(pipe))
               /\ pc' = "l152" /\ LoopStay /\ ioFault' = ioFault
          ELSE IF r = "eof"
          THEN /\ UNCHANGED <<buffer, pipe>>
               /\ pc' = "l174" /\ LoopExit("eof") /\ ioFault' = ioFault
          ELSE IF r = "again"
          THEN /\ UNCHANGED <<buffer, pipe>>
               /\ pc' = "l168" /\ LoopStay /\ ioFault' = ioFault
          ELSE /\ UNCHANGED <<buffer, pipe>>
               /\ pc' = "l174" /\ LoopExit("readerr") /\ ioFault' = TRUE
    /\ UNCHANGED <<glob, out, stp>>
    /\ UNCHANGED <<childState, childStatus, childOut, pend, nw>>
    /\ UNCHANGED <<pipefd0, pipefd1, ret, err, revents, waited, status, retval>>
    /\ UNCHANGED <<cancelled, stopEarly, shutdown, timeoutReported>>
    /\ UNCHANGED obs

\* what write(STDOUT_FILENO, buffer, bytes_read) may do
WriteOutcomes == {"ok", "EPIPE", "EIO"}

\* lines 152-156: forward the chunk; only EPIPE leaves the loop
L152 ==
    /\ pc = "l152"
    /\ \E w \in WriteOutcomes :
          IF w = "ok"
          THEN /\ out' = out \o buffer
               /\ pc' = "l168" /\ LoopStay /\ ioFault' = ioFault
          ELSE IF w = "EPIPE"
          THEN /\ out' = out
               /\ pc' = "l174" /\ LoopExit("epipe") /\ ioFault' = TRUE
          ELSE /\ out' = out
               /\ pc' = "l168" /\ LoopStay /\ ioFault' = TRUE
    /\ UNCHANGED <<glob, chi, stp>>
    /\ UNCHANGED <<pipefd0, pipefd1, ret, err, revents, buffer, waited, status, retval>>
    /\ UNCHANGED <<cancelled, stopEarly, shutdown, timeoutReported>>
    /\ UNCHANGED obs

\* lines 168-171: if (revents & (POLLERR | POLLHUP)) break
L168 ==
    /\ pc = "l168"
    /\ IF "HUP" \in revents
       THEN pc' = "l174" /\ LoopExit("hup")
       ELSE pc' = "l120" /\ LoopStay
    /\ UNCHANGED <<glob, chi, out, stp>>
    /\ UNCHANGED <<pipefd0, pipefd1, ret, err, revents, buffer, waited, status, retval>>
    /\ UNCHANGED <<cancelled, stopEarly, shutdown, timeoutReported, ioFault>>
    /\ UNCHANGED obs

\* ---- shutdown and reap (lines 174-219) ----
\* line 174: close(pipefd[0]); the last read end is gone, and the bytes still
\* buffered in the pipe with it; ret, revents and buffer are not read again
L174 ==
    /\ pc = "l174"
    /\ pipefd0' = Close(pipefd0)
    /\ pipe' = <<>>
    /\ pc' = "l179"
    /\ ret' = 0 /\ err' = "none" /\ revents' = {} /\ buffer' = <<>>
    /\ UNCHANGED <<glob, out, stp, his>>
    /\ UNCHANGED <<childState, childStatus, childOut, pend, nw>>
    /\ UNCHANGED <<pipefd1, waited, status, retval>>
    /\ flagAtWait' = FALSE
    /\ UNCHANGED <<sigBeforeLoop, killSent>>

\* a cancellation branch that goes to the reap polling without the kill of
\* line 181
L179NoKill ==
    /\ pc = "l179"
    /\ IF signal_received # 0
       THEN pc' = "l186" /\ shutdown' = "forced"
       ELSE pc' = "l205" /\ shutdown' = "normal"
    /\ UNCHANGED <<glob, chi, out, stp>>
    /\ UNCHANGED <<cancelled, stopEarly, loopExit, aliveAtExit, timeoutReported, ioFault>>
    /\ UNCHANGED <<pipefd0, pipefd1, ret, err, revents, buffer, waited, status, retval>>
    /\ UNCHANGED obs

\* line 179: if (signal_received)
L179 ==
    /\ pc = "l179"
    /\ IF signal_received # 0
       THEN pc' = "l181" /\ shutdown' = "forced"
       ELSE pc' = "l205" /\ shutdown' = "normal"
    /\ UNCHANGED <<glob, chi, out, stp>>
    /\ UNCHANGED <<cancelled, stopEarly, loopExit, aliveAtExit, timeoutReported, ioFault>>
    /\ UNCHANGED <<pipefd0, pipefd1, ret, err, revents, buffer, waited, status, retval>>
    /\ UNCHANGED obs

\* a loop condition that admits one attempt too many (waited <= wait_timeout)
ReapLoopContinuesLe(w) == w <= WaitTimeout

\* line 185: while (waited < wait_timeout)
ReapLoopContinues(w) == w < WaitTimeout

\* lines 181-185: kill(pid, SIGKILL); int waited = 0; then the loop condition
L181 ==
    /\ pc = "l181"
    /\ pend' = PendAfter(Pid, SIGKILL)
    /\ waited' = 0
    /\ pc' = IF ReapLoopContinues(0) THEN "l186" ELSE "l197"
    /\ UNCHANGED <<glob, out, stp, his>>
    /\ UNCHANGED <<childState, childStatus, childOut, nw, pipe>>
    /\ UNCHANGED <<pipefd0, pipefd1, ret, err, revents, buffer, status, retval>>
    /\ killSent' = TRUE
    /\ UNCHANGED <<sigBeforeLoop, flagAtWait>>

\* lines 186-195: one reap attempt; when the child is still running, sleep
\* 100 ms, add it to waited and test the loop condition again
L186 ==
    /\ pc = "l186"
    /\ IF WaitNoHang = Pid
       THEN /\ childState' = "reaped"
            /\ status' = childStatus
            /\ waited' = waited
            /\ pc' = "l197"
       ELSE IF WaitNoHang = -1
       THEN /\ UNCHANGED <<childState, status, waited>>
            /\ pc' = "l197"
       ELSE /\ UNCHANGED <<childState, status>>
            /\ waited' = waited + SleepMs
            /\ pc' = IF ReapLoopContinues(waited + SleepMs) THEN "l186" ELSE "l197"
    /\ UNCHANGED <<glob, out, stp, his>>
    /\ UNCHANGED <<childStatus, childOut, pend, nw, pipe>>
    /\ UNCHANGED <<pipefd0, pipefd1, ret, err, revents, buffer, retval>>
    /\ UNCHANGED obs

\* lines 197-199: if (waited >= wait_timeout) report the timeout
L197 ==
    /\ pc = "l197"
    /\ timeoutReported' = (waited >= WaitTimeout)
    /\ pc' = "l201"
    /\ UNCHANGED <<glob, chi, out, stp>>
    /\ UNCHANGED <<pipefd0, pipefd1, ret, err, revents, buffer, waited, status, retval>>
    /\ UNCHANGED <<cancelled, stopEarly, loopExit, aliveAtExit, shutdown, ioFault>>
    /\ UNCHANGED obs

\* lines 201-202: child_pid = -1; return -1
L201 ==
    /\ pc = "l201"
    /\ child_pid' = -1
    /\ Return(-1)
    /\ UNCHANGED <<signal_received, handlers, chi, out, stp, his>>
    /\ UNCHANGED <<pipefd0, pipefd1>>
    /\ UNCHANGED obs

\* a reap that does not wait (WNOHANG in place of 0): a running child leaves
\* status as it was
L205NoHang ==
    /\ pc = "l205"
    /\ IF childState = "zombie"
       THEN /\ childState' = "reaped"
            /\ status' = childStatus
            /\ pc' = "l211"
       ELSE IF childState = "running"
       THEN /\ UNCHANGED <<childState, status>>
            /\ pc' = "l211"
       ELSE /\ UNCHANGED <<childState, status>>
            /\ pc' = "l207"
    /\ UNCHANGED <<glob, out, stp, his>>
    /\ UNCHANGED <<childStatus, childOut, pend, nw, pipe>>
    /\ UNCHANGED <<pipefd0, pipefd1, ret, err, revents, buffer, waited, retval>>
    /\ UNCHANGED obs

\* line 205: waitpid(pid, &status, 0) blocks until the child has terminated
\* and reaps it; it fails at once (ECHILD) when there is no child to wait for
L205 ==
    /\ pc = "l205"
    /\ childState # "running"
    /\ IF childState = "zombie"
       THEN /\ childState' = "reaped"
            /\ status' = childStatus
            /\ pc' = "l211"
       ELSE /\ UNCHANGED <<childState, status>>
            /\ pc' = "l207"
    /\ UNCHANGED <<glob, out, stp, his>>
    /\ UNCHANGED <<childStatus, childOut, pend, nw, pipe>>
    /\ UNCHANGED <<pipefd0, pipefd1, ret, err, revents, buffer, waited, retval>>
    /\ UNCHANGED obs

\* lines 207-208: child_pid = -1; return -1
L207 ==
    /\ pc = "l207"
    /\ child_pid' = -1
    /\ Return(-1)
    /\ UNCHANGED <<signal_received, handlers, chi, out, stp, his>>
    /\ UNCHANGED <<pipefd0, pipefd1>>
    /\ UNCHANGED obs

\* line 211: child_pid = -1
L211 ==
    /\ pc = "l211"
    /\ child_pid' = -1
    /\ pc' = "l213"
    /\ UNCHANGED <<signal_received, handlers, chi, out, stp, his>>
    /\ UNCHANGED <<pipefd0, pipefd1, ret, err, revents, buffer, waited, status, retval>>
    /\ UNCHANGED obs

\* a result that hands the terminating signal's number to the caller
ExitValueSig(st) == IF WIFSIGNALED(st) THEN WTERMSIG(st) ELSE WEXITSTATUS(st)

\* lines 213-218: -1 for a child killed by a signal, else its exit status
ExitValue(st) == IF WIFSIGNALED(st) THEN -1 ELSE WEXITSTATUS(st)

L213 ==
    /\ pc = "l213"
    /\ Return(ExitValue(status))
    /\ UNCHANGED <<glob, chi, out, stp, his>>
    /\ UNCHANGED <<pipefd0, pipefd1>>
    /\ UNCHANGED obs

\* ---- the system ----
Launch ==
    \/ LaunchCall \/ L69 \/ L74 \/ L75 \/ L78 \/ L86 \/ L90 \/ L91 \/ L110 \/ L111
    \/ L120 \/ L122 \/ L127 \/ L138 \/ L150 \/ L152 \/ L168
    \/ L174 \/ L179 \/ L181 \/ L186 \/ L197 \/ L201 \/ L205 \/ L207 \/ L211 \/ L213

Stop == StopCall \/ Stop52 \/ Stop55 \/ Stop56

Signal == \E sig \in {SIGINT, SIGTERM} : signal_handler(sig)

Child ==
    \/ ChildWrite
    \/ ChildCloseOutput
    \/ \E c \in ExitCodes : ChildExit(c)
    \/ \E s \in {SIGTERM, SIGKILL} : ChildKilled(s)

Next == Launch \/ Stop \/ Signal \/ Child

Spec == Init /\ [][Next]_vars

\* ---- properties ----
\* launchJvm has returned from a call that got as far as the supervision loop
Returned == pc = "done" /\ loopExit # "none"

\* the bytes 1 .. n in order
Bytes(n) == [i \in 1..n |-> i]

\* C1: a launch without cancellation whose child terminated normally with
\* exit code c returns c, however the supervision loop ended.
C1_ReturnsExitCode ==
    (Returned /\ ~cancelled /\ childStatus[1] = "exit") => retval = childStatus[2]

\* C2: when a launch ends without cancellation (and without a failed I/O
\* call), the bytes forwarded to the caller are exactly the bytes the child
\* wrote, in order.
C2_OutputRoundTrip ==
    (Returned /\ ~cancelled /\ ~ioFault) => out = Bytes(nw)

\* C3: a launch during which stopJvm was called before the child produced any
\* output returns a failure exit code (stated for the launches in which no I/O
\* call failed).
C3_EarlyStopFails ==
    (pc = "done" /\ stopEarly /\ ~ioFault) => retval = -1

\* C4: after cancellation is observed, launchJvm makes at most 50 reap
\* attempts of 100 ms each and then stops trying: every step of the shutdown
\* protocol can be taken without waiting for the child, every attempt that
\* stays in the loop adds 100 ms to the time waited, and the time waited never
\* exceeds 5000 ms; the timeout is reported exactly when the child was not
\* reaped, and the launch returns -1.
C4_ReapBounded ==
    /\ (pc = "l181" => ENABLED L181)
    /\ (pc = "l186" => waited \div 100 < 50 /\ ENABLED L186)
    /\ (pc = "l197" => waited \div 100 <= 50 /\ ENABLED L197)
    /\ (pc = "l201" => (timeoutReported <=> waited >= 5000) /\ ENABLED L201)
    /\ (shutdown = "forced" /\ pc \in {"l201", "done"}
          => (timeoutReported <=> childState # "reaped"))
    /\ (shutdown = "forced" /\ pc = "done" => retval = -1)

C4_AttemptAddsTime ==
    (pc = "l186" /\ pc' = "l186") => waited' \in {waited, waited + 100}

C4_BoundedShutdown == []C4_ReapBounded /\ [][C4_AttemptAddsTime]_vars

\* the child outlived all 50 attempts: the timeout was reported and -1 returned
C4_Witness ==
    pc = "done" /\ shutdown = "forced" /\ timeoutReported /\ ChildAlive /\ retval = -1

\* C5: stopJvm returns success exactly when a child is active and SIGTERM was
\* delivered to it, and then sets the flag to SIGTERM; otherwise it returns
\* failure and leaves the flag alone; it never changes child_pid and never
\* reaps the child.
C5_StopStep ==
    /\ (spc # spc') => (child_pid' = child_pid /\ childState' = childState)
    /\ (spc = "s56" /\ spc' = "idle")
          => (stopRet' = "ok" /\ stopTarget = Pid /\ signal_received' = SIGTERM)
    /\ (spc \in {"s52", "s55"} /\ spc' = "idle")
          => (/\ stopRet' = "fail"
              /\ signal_received' = signal_received
              /\ (child_pid <= 0 \/ ~ChildAlive))

C5_StopContract == [][C5_StopStep]_vars

\* C6: a launch during which the flag was set, at any time between the reset
\* and the return, returns a failure exit code (stated for the launches in
\* which no I/O call failed).
C6_CancelAlwaysFails ==
    (pc = "done" /\ cancelled /\ ~ioFault) => retval = -1

\* C7: when the loop ended on a read of zero bytes while the child was still
\* running and no cancellation was requested, launchJvm waits for the child
\* and returns its exit code; the launch fails only if a signal killed the
\* child.
C7_EofThenExit ==
    /\ (pc = "l205" /\ loopExit = "eof" /\ childState = "running") => ~ENABLED Launch
    /\ (pc = "done" /\ loopExit = "eof" /\ ~cancelled)
          => /\ childState = "reaped"
             /\ retval = IF childStatus[1] = "exit" THEN childStatus[2] ELSE -1

\* the loop ended on end of file with the child running, and the launch
\* returned the exit code 1 of the later exit
C7_Witness ==
    /\ pc = "done" /\ loopExit = "eof" /\ aliveAtExit /\ ~cancelled
    /\ childStatus = <<"exit", 1>> /\ retval = 1

\* C8: on the path without cancellation a child killed by a signal makes
\* launchJvm return -1, not the signal's number, and so does a failed reap.
C8_SignalledIsFailure ==
    /\ (pc = "l213" /\ WIFSIGNALED(status)) => ENABLED (L213 /\ retval' = -1)
    /\ (pc = "done" /\ shutdown = "normal" /\ childStatus[1] = "sig") => retval = -1
    /\ (pc = "done" /\ shutdown = "normal" /\ loopExit \in {"exited", "waiterr"})
          => retval = -1

\* the blocking reap found the child killed by SIGTERM, and -1 was returned
C8_Witness ==
    /\ pc = "done" /\ shutdown = "normal" /\ loopExit \notin {"exited", "waiterr"}
    /\ childStatus = <<"sig", SIGTERM>> /\ retval = -1

\* C9: while child_pid holds the child's pid, the child has not been reaped
\* (one direction of: child_pid is set exactly while the child exists).
C9_IdImpliesNotReaped ==
    child_pid > 0 => ChildAlive

\* C10: once set after the reset of line 74, the flag is not cleared before
\* launchJvm returns, and the only step that clears it is that reset.
C10_FlagStep ==
    /\ (signal_received # 0 /\ signal_received' = 0) => (pc = "l74" /\ pc' = "l75")
    /\ (InLaunch /\ signal_received # 0) => signal_received' # 0

C10_FlagMonotonic == [][C10_FlagStep]_vars

\* a launch that returned with the flag set during it and still set
C10_Witness ==
    pc = "done" /\ cancelled /\ signal_received # 0 /\ loopExit = "cancel"

\* C11: a signal delivered after launchJvm installed the handler and before
\* the supervision loop starts is seen by the first check of the loop (line
\* 122), which leaves the loop.
C11_FirstCheck ==
    (pc = "l122" /\ sigBeforeLoop /\ pc' # pc) => (pc' = "l174" /\ loopExit' = "cancel")

C11_NoSignalLost == [][C11_FirstCheck]_vars

\* C12: when the flag is set at the check that follows poll (line 122), the
\* loop is left in that iteration, whatever poll reported: nothing is read
\* from the pipe, nothing is forwarded and the child is not reaped.
C12_CheckStep ==
    (pc = "l122" /\ signal_received # 0 /\ pc' # pc)
        => /\ pc' = "l174" /\ loopExit' = "cancel"
           /\ pipe' = pipe /\ buffer' = buffer /\ out' = out
           /\ childState' = childState /\ status' = status

C12_FlagBeatsData == [][C12_CheckStep]_vars

\* the loop was left on the flag although poll had reported the pipe readable
\* and a byte is waiting in it
C12_Witness ==
    /\ pc = "l174" /\ loopExit = "cancel"
    /\ ret = 1 /\ "IN" \in revents /\ pipe # <<>>

\* C13: when launchJvm returns, on whatever path, neither end of the pipe is
\* open in the supervisor, and no end was ever closed when it was not open
\* (closed twice); a launch that reached the loop has closed both ends.
C13_PipeEndsClosedOnce ==
    /\ pipefd0 # "EBADF" /\ pipefd1 # "EBADF"
    /\ (pc = "done" => (pipefd0 # "open" /\ pipefd1 # "open"))
    /\ (pc = "done" => (pipefd0 = "closed" <=> pipefd1 = "closed"))
    /\ (pc = "done" /\ loopExit # "none" => (pipefd0 = "closed" /\ pipefd1 = "closed"))

\* a cancelled launch that gave up on the child after the timeout has closed
\* both ends
C13_Witness ==
    /\ pc = "done" /\ loopExit = "cancel" /\ timeoutReported
    /\ pipefd0 = "closed" /\ pipefd1 = "closed"

\* C14: in a cancelled launch the loop is left first, then the read end is
\* closed and SIGKILL is sent, then the reap polling runs, and only then is
\* child_pid cleared: a loop left on the flag always takes the cancellation
\* branch, SIGKILL is sent only after the read end was closed, the polling
\* runs only after SIGKILL was sent and with child_pid still set, and
\* child_pid is cleared at line 201 only.
C14_Order ==
    /\ (loopExit = "cancel" /\ shutdown # "none" => shutdown = "forced")
    /\ (killSent => (loopExit # "none" /\ pipefd0 = "closed" /\ shutdown = "forced"))
    /\ (shutdown = "forced" /\ pc = "l181" => (pipefd0 = "closed" /\ child_pid = Pid))
    /\ (pc \in {"l186", "l197", "l201"} => (killSent /\ child_pid = Pid))
    /\ (shutdown = "forced" /\ pc = "done" => (killSent /\ child_pid = -1))

C14_ClearStep ==
    (shutdown = "forced" /\ child_pid = Pid /\ child_pid' # Pid)
        => (pc = "l201" /\ killSent)

C14_ShutdownOrder == []C14_Order /\ [][C14_ClearStep]_vars

\* a launch left on the flag: SIGKILL was sent and killed the child, the
\* polling reaped it, and child_pid was cleared
C14_Witness ==
    /\ pc = "done" /\ loopExit = "cancel" /\ killSent
    /\ childState = "reaped" /\ childStatus = <<"sig", SIGKILL>> /\ child_pid = -1

\* C15: after a write to the caller's output has failed, with whatever error,
\* the loop does not start another iteration.  (Inside the loop a failed I/O
\* call is on record with the loop not yet left only after a failed write:
\* a failed poll or read leaves the loop in the same step.)
C15_FailedWriteEndsLoop ==
    (ioFault /\ loopExit = "none") => pc \notin {"l120", "l122", "l127", "l138", "l150", "l152"}

\* C16: a failed poll is retried when its error is transient (EINTR or
\* EAGAIN) and the flag is not set, and ends the loop otherwise.
C16_PollErrorStep ==
    (pc = "l127" /\ ret = -1 /\ pc' # pc)
        => IF err \in {"EINTR", "EAGAIN"} /\ signal_received = 0
           THEN pc' = "l120" /\ loopExit' = "none"
           ELSE pc' = "l174"

C16_TransientRetried == [][C16_PollErrorStep]_vars

\* C17: when pipe() or fork() fails, launchJvm returns -1 and leaves nothing
\* behind: the failed fork created no process, child_pid is -1, no end of
\* the pipe is open, and the flag is 0 unless a signal or stopJvm set it
\* during the launch.
C17_FailureStep ==
    /\ (pc = "l86" /\ pc' = "l90") => UNCHANGED chi
    /\ (pc \in {"l78", "l91"} /\ pc' = "done")
          => /\ retval' = -1
             /\ UNCHANGED chi
             /\ child_pid' = -1
             /\ pipefd0' # "open" /\ pipefd1' # "open"
             /\ (pc = "l91" => (pipefd0' = "closed" /\ pipefd1' = "closed"))
             /\ (~cancelled' => signal_received' = 0)

C17_NoPartialState == [][C17_FailureStep]_vars

\* the first launch, after fork failed: -1 returned, no process, child_pid
\* -1, the flag 0 and both ends closed
C17_Witness ==
    /\ pc = "done" /\ retval = -1 /\ loopExit = "none"
    /\ childState = "none" /\ child_pid = -1 /\ signal_received = 0
    /\ pipefd0 = "closed" /\ pipefd1 = "closed"

\* C18: a run of signal_handler for SIGINT or SIGTERM, at whatever point of
\* launchJvm, stores that signal's number in the flag, sends SIGTERM to the
\* child exactly when child_pid is set, and changes nothing else; it never
\* writes child_pid.  (A step that changes the flag or the child's pending
\* signals and belongs neither to launchJvm, nor to stopJvm, nor to the
\* child's termination is a run of the handler.)
C18_HandlerRuns ==
    handlers => \A sig \in {SIGINT, SIGTERM} :
                   ENABLED (signal_handler(sig) /\ signal_received' = sig)

C18_HandlerStep ==
    (/\ pc' = pc /\ spc' = spc /\ childState' = childState
     /\ (signal_received' # signal_received \/ pend' # pend))
        => /\ signal_received' \in {SIGINT, SIGTERM}
           /\ pend' = IF child_pid > 0 /\ childState = "running"
                      THEN pend \cup {SIGTERM}
                      ELSE pend
           /\ child_pid' = child_pid /\ handlers' = handlers
           /\ UNCHANGED <<loc, out, stp>>
           /\ UNCHANGED <<childStatus, childOut, nw, pipe>>

C18_HandlerEffect == []C18_HandlerRuns /\ [][C18_HandlerStep]_vars

\* stopJvm was never called: the handler alone set the flag to SIGINT and
\* sent SIGTERM to the running child
C18_Witness ==
    /\ signal_received = SIGINT /\ SIGTERM \in pend /\ childState = "running"
    /\ child_pid = Pid /\ spc = "idle" /\ stopRet = "none"

\* C19: once the flag is set, the loop begins at most one more poll and
\* forwards at most one more chunk: an iteration whose poll began with the
\* flag set gets no further than the check of line 122 and leaves the loop
\* there, so it reads nothing, forwards nothing and is followed by no other
\* iteration.
C19_IterationWithFlag ==
    flagAtWait => /\ pc \in {"l122", "l174"}
                  /\ signal_received # 0
                  /\ (pc = "l174" => loopExit = "cancel")

C19_IterationStep ==
    (flagAtWait /\ pc' # pc) => (pc' \in {"l174", "l179"} /\ out' = out /\ pipe' \in {pipe, <<>>})

C19_BoundedDetection == []C19_IterationWithFlag /\ [][C19_IterationStep]_vars

\* the loop had forwarded output before the flag stopped it: its last poll
\* began with the flag set and the loop was left at the check
C19_Witness ==
    /\ pc = "l174" /\ flagAtWait /\ loopExit = "cancel" /\ out # <<>>
    /\ childState = "running"

\* C20: no kill names the child's pid after the child has been reaped:
\* neither kill(pid, SIGKILL) of line 181, nor kill(child_pid, SIGTERM) of
\* stopJvm (line 55), nor kill(child_pid, SIGTERM) of signal_handler (line 25;
\* a step that changes the flag and belongs neither to launchJvm nor to
\* stopJvm is a run of the handler).
C20_KillStep ==
    /\ (pc = "l181" /\ pc' # pc) => ~KillsReaped(Pid)
    /\ (spc = "s55" /\ spc' # spc) => ~KillsReaped(child_pid)
    /\ (pc' = pc /\ spc' = spc /\ signal_received' # signal_received /\ child_pid > 0)
          => ~KillsReaped(child_pid)

C20_NoSignalAfterReap == [][C20_KillStep]_vars

====
